---- MODULE Spec2Model ----
(***************************************************************************)
(* Model of self-preview/self_preview.py: PreviewRenderer.run and the two  *)
(* pipelines it sequences, render_items and render_overview.  The abstract *)
(* capabilities load_artifact, render_item and get_items are the           *)
(* environment: their results are chosen nondeterministically.             *)
(***************************************************************************)
EXTENDS Integers, Sequences, FiniteSets, TLC

(* ------------------------------------------------------------------ *)
(* Configuration (self_preview.py, lines 43-54)                        *)
(* ------------------------------------------------------------------ *)
OUTPUT_DIR == "build/previews"
OVERVIEW_FILENAME == "overview.png"
DEFAULT_SIZE == 400
GRID_CELL_SIZE == 120
GRID_PADDING == 8
MAX_COLS == 16

(* ------------------------------------------------------------------ *)
(* Bounds of the model                                                 *)
(* ------------------------------------------------------------------ *)
\* longest list get_items() returns in Spec
MaxItems == 3
\* longest items argument handed to run() in Spec
MaxRequested == 2
\* largest item count of GridSpec (the 16-column cap starts at n = 171)
MaxN == 174
\* cell sizes 1..MaxCellSize, besides GRID_CELL_SIZE, in GridSpec
MaxCellSize == 1

\* Item identifiers are sequences of characters.  "a/b" and "a_b" differ
\* only in a path separator; "c\d" holds a backslash.
ItemPool == { <<"a", "/", "b">>, <<"a", "_", "b">>, <<"c", "\\", "d">> }

\* finite sequences over S of length at most k
SeqUpTo(S, k) == UNION { [1..m -> S] : m \in 0..k }

IsDistinct(s) == \A p, q \in 1..Len(s) : p # q => s[p] # s[q]

\* the lists get_items() may return: pairwise distinct identifiers
ItemLists == { s \in SeqUpTo(ItemPool, MaxItems) : IsDistinct(s) }

\* the items argument of run(): any list, <<>> standing for None or []
RequestedLists == SeqUpTo(ItemPool, MaxRequested)

CellSizes == (1..MaxCellSize) \cup {GRID_CELL_SIZE}

(* ------------------------------------------------------------------ *)
(* render_item results: a canvas of some dimensions, or None           *)
(* ------------------------------------------------------------------ *)
NoneResult == [kind |-> "None", w |-> 0, h |-> 0]

Canvas(w, h) == [kind |-> "image", w |-> w, h |-> h]

\* what a conforming render_item returns for a requested size
RenderResults(size) == { NoneResult, Canvas(size, size) }

\* a renderer may also hand back a canvas of other dimensions
LooseRenderResults(size) == RenderResults(size) \cup { Canvas(size + 1, size) }

(* ------------------------------------------------------------------ *)
(* render_items: file name of one item (lines 171-172)                 *)
(* ------------------------------------------------------------------ *)
SafeChar(c) == IF c = "/" \/ c = "\\" THEN "_" ELSE c

SafeName(name) == [k \in 1..Len(name) |-> SafeChar(name[k])]

ItemPath(name) == <<OUTPUT_DIR, "/">> \o SafeName(name) \o <<".png">>

OverviewPath == <<OUTPUT_DIR, "/", OVERVIEW_FILENAME>>

(* ------------------------------------------------------------------ *)
(* render_overview: grid layout (lines 186-200)                        *)
(* ------------------------------------------------------------------ *)
\* math.ceil(math.sqrt(num / den)): the least c with c*c >= num/den,
\* found by counting up from c
RECURSIVE CeilSqrtFrom(_, _, _)
CeilSqrtFrom(c, num, den) ==
    IF c * c * den >= num THEN c ELSE CeilSqrtFrom(c + 1, num, den)

CeilSqrt(num, den) == CeilSqrtFrom(0, num, den)

\* math.ceil(a / b) for a >= 0, b > 0
CeilDiv(a, b) == (a + b - 1) \div b

Min(a, b) == IF a <= b THEN a ELSE b

\* GridCols with the factor 1.5 dropped
GridColsSquare(n) == Min(CeilSqrt(n, 1), MAX_COLS)

\* cols = min(math.ceil(math.sqrt(n * 1.5)), 16)
GridCols(n) == Min(CeilSqrt(3 * n, 2), MAX_COLS)

\* rows = math.ceil(n / cols)
GridRows(n, cols) == CeilDiv(n, cols)

\* ImgW without the padding unit that frames the grid
ImgWNoFrame(cols, size) == cols * (size + GRID_PADDING)

\* cell pitch, canvas width and height (lines 190-192)
CellPitch(size) == size + GRID_PADDING

ImgW(cols, size) == cols * CellPitch(size) + GRID_PADDING

ImgH(rows, size) == rows * CellPitch(size) + GRID_PADDING

\* Placement filling the grid column by column
PlacementColumnMajor(idx, cols, size) ==
    [idx |-> idx,
     col |-> idx \div cols,
     row |-> idx % cols,
     x   |-> GRID_PADDING + (idx \div cols) * (size + GRID_PADDING),
     y   |-> GRID_PADDING + (idx % cols) * (size + GRID_PADDING)]

\* cell and origin of the item at index idx (lines 197-200)
Placement(idx, cols, size) ==
    [idx |-> idx,
     col |-> idx % cols,
     row |-> idx \div cols,
     x   |-> GRID_PADDING + (idx % cols) * CellPitch(size),
     y   |-> GRID_PADDING + (idx \div cols) * CellPitch(size)]

\* the canvas as pasted: resized to (size, size) when it differs (207-208)
Resized(img, size) ==
    IF img.w # size \/ img.h # size THEN Canvas(size, size) ELSE img


(* ------------------------------------------------------------------ *)
(* State                                                               *)
(* ------------------------------------------------------------------ *)
VARIABLES
    pc,             \* position of run(): Idle, Loading, Failed, Ready, Rendering, Composing, Done
    items,          \* run()'s items argument (<<>>: None or empty)
    overview_only,  \* run()'s overview_only argument
    no_overview,    \* run()'s no_overview argument
    overlays,       \* run()'s overlays argument
    all_items,      \* what get_items() returns
    load_result,    \* "pending", "ok" or "failed": what load_artifact() returned
    target_items,   \* render_items' item_names
    i,              \* render_items' loop index: items handled so far
    ov,             \* render_overview's locals (n, cols, rows, ..., loop index)
    tiles,          \* what has been pasted into the overview canvas
    calls,          \* the render_item invocations so far, in order
    files,          \* the files present in the output directory
    dir_exists,     \* whether os.makedirs(output_dir) has run
    ret,            \* run()'s return value: "none", "True" or "False"
    trace           \* the positions run() has been through

vars == <<pc, items, overview_only, no_overview, overlays, all_items, load_result,
          target_items, i, ov, tiles, calls, files, dir_exists, ret, trace>>

args == <<items, overview_only, no_overview, overlays, all_items>>

NoLast == [idx |-> 0, col |-> 0, row |-> 0, x |-> 0, y |-> 0,
           w |-> 0, h |-> 0, pasted |-> FALSE, resized |-> FALSE]

\* render_overview before it has allocated a canvas
NoOverview == [active |-> FALSE, n |-> 0, size |-> 0, cols |-> 0, rows |-> 0,
               img_w |-> 0, img_h |-> 0, idx |-> 0, skipped |-> FALSE,
               last |-> NoLast]

\* lines 186-194: the layout and the canvas of an overview of n >= 1 items
OverviewLayout(n, size) ==
    [active |-> TRUE, n |-> n, size |-> size,
     cols |-> GridCols(n),
     rows |-> GridRows(n, GridCols(n)),
     img_w |-> ImgW(GridCols(n), size),
     img_h |-> ImgH(GridRows(n, GridCols(n)), size),
     idx |-> 0, skipped |-> FALSE, last |-> NoLast]

\* OverviewBegin without the early return: a canvas is allocated for no items
OverviewBeginNoReturn(n, size) ==
    IF n = 0 THEN [NoOverview EXCEPT !.active = TRUE] ELSE OverviewLayout(n, size)

\* lines 181-194: `if not items: return`, else the layout
OverviewBegin(n, size) == IF n = 0 THEN NoOverview ELSE OverviewLayout(n, size)

\* OverviewPlace leaving the loop at the first absent result
OverviewPlaceBreak(o, r) ==
    IF r.kind = "None"
      THEN [o EXCEPT !.idx = o.n, !.skipped = TRUE]
      ELSE [o EXCEPT !.idx = o.idx + 1,
                     !.last = [idx |-> o.idx, col |-> o.idx % o.cols,
                               row |-> o.idx \div o.cols,
                               x |-> GRID_PADDING + (o.idx % o.cols) * (o.size + GRID_PADDING),
                               y |-> GRID_PADDING + (o.idx \div o.cols) * (o.size + GRID_PADDING),
                               w |-> o.size, h |-> o.size, pasted |-> TRUE,
                               resized |-> r.w # o.size \/ r.h # o.size]]

\* lines 196-210: one iteration of the composer's loop with render result r
OverviewPlace(o, r) ==
    LET p == Placement(o.idx, o.cols, o.size)
        t == Resized(r, o.size)
    IN [o EXCEPT !.idx = o.idx + 1,
                 !.skipped = o.skipped \/ r.kind = "None",
                 !.last = [idx |-> p.idx, col |-> p.col, row |-> p.row,
                           x |-> p.x, y |-> p.y,
                           w |-> IF r.kind = "None" THEN 0 ELSE t.w,
                           h |-> IF r.kind = "None" THEN 0 ELSE t.h,
                           pasted |-> r.kind # "None",
                           resized |-> r.kind # "None" /\ t # r]]

\* OverviewItems honouring the caller's subset
OverviewItemsSubset(requested, enumerated) ==
    IF requested # <<>> THEN requested ELSE enumerated

\* line 181: the composer's items are always get_items()
OverviewItems(requested, enumerated) == enumerated

\* line 233: target_items = items if items else self.get_items()
TargetItems(requested, enumerated) ==
    IF requested # <<>> THEN requested ELSE enumerated

\* AfterLoad ignoring load_artifact()'s result
AfterLoadIgnored(ok) == "Ready"

\* lines 225-229: where run() goes once load_artifact() has returned
AfterLoad(ok) == IF ok THEN "Ready" ELSE "Failed"

\* line 229: the stage run() enters from Ready
FirstStage(only) == IF only THEN "Composing" ELSE "Rendering"

\* StageAfterItems ignoring no_overview
StageAfterItemsAlways(suppress) == "Composing"

\* line 237: the stage run() enters once render_items has returned
StageAfterItems(suppress) == IF ~suppress THEN "Composing" ELSE "Done"

Call(stage, name, size, ovl, r) ==
    [stage |-> stage, name |-> name, size |-> size, overlays |-> ovl,
     result |-> r.kind]

Init ==
    /\ pc = "Idle"
    /\ items \in RequestedLists
    /\ overview_only \in BOOLEAN
    /\ no_overview \in BOOLEAN
    /\ overlays \in BOOLEAN
    /\ all_items \in ItemLists
    /\ load_result = "pending"
    /\ target_items = <<>>
    /\ i = 0
    /\ ov = NoOverview
    /\ tiles = {}
    /\ calls = <<>>
    /\ files = {}
    /\ dir_exists = FALSE
    /\ ret = "none"
    /\ trace = <<"Idle">>

(* ------------------------------------------------------------------ *)
(* run (lines 221-242)                                                 *)
(* ------------------------------------------------------------------ *)
\* lines 224-225: run() invokes load_artifact()
run_load ==
    /\ pc = "Idle"
    /\ pc' = "Loading"
    /\ trace' = Append(trace, "Loading")
    /\ UNCHANGED <<args, load_result, target_items, i, ov, tiles, calls, files,
                   dir_exists, ret>>

\* lines 225-227: load_artifact() returns ok
load_artifact(ok) ==
    /\ pc = "Loading"
    /\ load_result' = IF ok THEN "ok" ELSE "failed"
    /\ pc' = AfterLoad(ok)
    /\ trace' = Append(trace, AfterLoad(ok))
    /\ ret' = IF AfterLoad(ok) = "Failed" THEN "False" ELSE ret
    /\ UNCHANGED <<args, target_items, i, ov, tiles, calls, files, dir_exists>>

\* lines 229-231 and 181-194: overview only; render_overview starts
run_overview_only ==
    /\ pc = "Ready"
    /\ FirstStage(overview_only) = "Composing"
    /\ pc' = "Composing"
    /\ trace' = Append(trace, "Composing")
    /\ ov' = OverviewBegin(Len(OverviewItems(items, all_items)), GRID_CELL_SIZE)
    /\ UNCHANGED <<args, load_result, target_items, i, tiles, calls, files,
                   dir_exists, ret>>

\* lines 233-235 and 162: render_items starts on the target items
run_render_items ==
    /\ pc = "Ready"
    /\ FirstStage(overview_only) = "Rendering"
    /\ pc' = "Rendering"
    /\ trace' = Append(trace, "Rendering")
    /\ target_items' = TargetItems(items, all_items)
    /\ i' = 0
    /\ dir_exists' = TRUE
    /\ UNCHANGED <<args, load_result, ov, tiles, calls, files, ret>>

\* render_items_step failing the run when render_item returns None
render_items_step_abort ==
    /\ pc = "Rendering"
    /\ i < Len(target_items)
    /\ \E r \in RenderResults(DEFAULT_SIZE) :
         LET name == target_items[i + 1] IN
         /\ calls' = Append(calls, Call("items", name, DEFAULT_SIZE, overlays, r))
         /\ files' = IF r.kind = "None" THEN files ELSE files \cup {ItemPath(name)}
         /\ pc' = IF r.kind = "None" THEN "Failed" ELSE pc
         /\ ret' = IF r.kind = "None" THEN "False" ELSE ret
         /\ trace' = IF r.kind = "None" THEN Append(trace, "Failed") ELSE trace
    /\ i' = i + 1
    /\ UNCHANGED <<args, load_result, target_items, ov, tiles, dir_exists>>

\* lines 164-174: one iteration of render_items' loop
render_items_step ==
    /\ pc = "Rendering"
    /\ i < Len(target_items)
    /\ \E r \in RenderResults(DEFAULT_SIZE) :
         LET name == target_items[i + 1] IN
         /\ calls' = Append(calls, Call("items", name, DEFAULT_SIZE, overlays, r))
         /\ files' = IF r.kind = "None" THEN files ELSE files \cup {ItemPath(name)}
    /\ i' = i + 1
    /\ UNCHANGED <<pc, args, load_result, target_items, ov, tiles, dir_exists,
                   ret, trace>>

\* lines 237-242: render_items has returned; the overview, unless suppressed
run_after_items ==
    /\ pc = "Rendering"
    /\ i = Len(target_items)
    /\ pc' = StageAfterItems(no_overview)
    /\ trace' = Append(trace, StageAfterItems(no_overview))
    /\ IF StageAfterItems(no_overview) = "Composing"
         THEN /\ ov' = OverviewBegin(Len(OverviewItems(items, all_items)),
                                     GRID_CELL_SIZE)
              /\ ret' = ret
         ELSE /\ ov' = ov
              /\ ret' = "True"
    /\ UNCHANGED <<args, load_result, target_items, i, tiles, calls, files,
                   dir_exists>>

(* ------------------------------------------------------------------ *)
(* render_overview (lines 176-219)                                     *)
(* ------------------------------------------------------------------ *)
\* lines 196-214: one iteration of the composer's loop
render_overview_step ==
    /\ pc = "Composing"
    /\ ov.active
    /\ ov.idx < ov.n
    /\ \E r \in RenderResults(ov.size) :
         LET name == OverviewItems(items, all_items)[ov.idx + 1]
             o    == OverviewPlace(ov, r)
         IN
         /\ calls' = Append(calls, Call("overview", name, ov.size, FALSE, r))
         /\ ov' = o
         /\ tiles' = IF o.last.pasted
                       THEN tiles \cup {[idx |-> o.last.idx, col |-> o.last.col,
                                         row |-> o.last.row, x |-> o.last.x,
                                         y |-> o.last.y, w |-> o.last.w,
                                         h |-> o.last.h, label |-> name]}
                       ELSE tiles
    /\ UNCHANGED <<pc, args, load_result, target_items, i, files, dir_exists,
                   ret, trace>>

\* lines 182-184 or 216-219, then 241-242: render_overview returns, run() is done
render_overview_return ==
    /\ pc = "Composing"
    /\ ov.idx = ov.n
    /\ files' = IF ov.active THEN files \cup {OverviewPath} ELSE files
    /\ dir_exists' = (dir_exists \/ ov.active)
    /\ pc' = "Done"
    /\ trace' = Append(trace, "Done")
    /\ ret' = "True"
    /\ UNCHANGED <<args, load_result, target_items, i, ov, tiles, calls>>

Next ==
    \/ run_load
    \/ \E ok \in BOOLEAN : load_artifact(ok)
    \/ run_overview_only
    \/ run_render_items
    \/ render_items_step
    \/ run_after_items
    \/ render_overview_step
    \/ render_overview_return

Spec == Init /\ [][Next]_vars

(* ------------------------------------------------------------------ *)
(* render_overview called on its own, on n items and a cell size: the  *)
(* layout arithmetic over item counts past the 16-column cap.  Item    *)
(* names play no part in the layout and are left out.                  *)
(* ------------------------------------------------------------------ *)
GridInit ==
    /\ pc = "Idle"
    /\ items = <<>>
    /\ overview_only = TRUE
    /\ no_overview = FALSE
    /\ overlays = TRUE
    /\ all_items = <<>>
    /\ load_result = "ok"
    /\ target_items = <<>>
    /\ i = 0
    /\ ov = NoOverview
    /\ tiles = {}
    /\ calls = <<>>
    /\ files = {}
    /\ dir_exists = FALSE
    /\ ret = "none"
    /\ trace = <<"Idle">>

\* lines 181-194 with len(items) = n
grid_begin ==
    /\ pc = "Idle"
    /\ \E n \in 1..MaxN, size \in CellSizes : ov' = OverviewBegin(n, size)
    /\ pc' = "Composing"
    /\ trace' = Append(trace, "Composing")
    /\ UNCHANGED <<args, load_result, target_items, i, tiles, calls, files,
                   dir_exists, ret>>

\* lines 196-210
grid_step ==
    /\ pc = "Composing"
    /\ ov.idx < ov.n
    /\ \E r \in LooseRenderResults(ov.size) : ov' = OverviewPlace(ov, r)
    /\ UNCHANGED <<pc, args, load_result, target_items, i, tiles, calls, files,
                   dir_exists, ret, trace>>

\* lines 216-219
grid_save ==
    /\ pc = "Composing"
    /\ ov.idx = ov.n
    /\ files' = files \cup {OverviewPath}
    /\ dir_exists' = TRUE
    /\ pc' = "Done"
    /\ trace' = Append(trace, "Done")
    /\ UNCHANGED <<args, load_result, target_items, i, ov, tiles, calls, ret>>

GridNext == grid_begin \/ grid_step \/ grid_save

GridSpec == GridInit /\ [][GridNext]_vars


(* ------------------------------------------------------------------ *)
(* Properties                                                          *)
(* ------------------------------------------------------------------ *)
StageCalls(stage) == SelectSeq(calls, LAMBDA c : c.stage = stage)

Names(s) == [k \in 1..Len(s) |-> s[k].name]

Prefix(s, k) == SubSeq(s, 1, k)

Visited(p) == \E k \in 1..Len(trace) : trace[k] = p

Rendered(s) == { k \in 1..Len(s) : s[k].result = "image" }

\* C1: when load_artifact() returns false the run ends in Failed: run() has
\* returned False, nothing more can happen, render_item was never invoked by
\* either pipeline, and no per-item file and no overview file was written,
\* whatever items, overview_only and no_overview are.
C1_LoadFailureAborts ==
    load_result = "failed" =>
        /\ pc = "Failed"
        /\ ret = "False"
        /\ trace = <<"Idle", "Loading", "Failed">>
        /\ ~ENABLED Next
        /\ calls = <<>>
        /\ files = {}
        /\ tiles = {}
        /\ ~ov.active

C1_Witness ==
    /\ load_result = "failed"
    /\ pc = "Failed"
    /\ items # <<>>
    /\ all_items # <<>>
    /\ ~overview_only
    /\ ~no_overview

\* C2: per-item failures never fail the run.  run() returns False only when
\* load_artifact() returned false; once the load succeeded the run either
\* still has a step to take or is Done with True returned, every requested
\* stage complete, however many render_item calls returned None.
C2_ItemFailuresNeverFailRun ==
    /\ ret = "False" => load_result = "failed"
    /\ pc = "Failed" => load_result = "failed"
    /\ load_result = "ok" =>
          \/ pc = "Done" /\ ret = "True"
          \/ pc # "Done" /\ ret = "none" /\ ENABLED Next
    /\ pc = "Done" =>
          /\ Visited("Rendering") => Len(StageCalls("items")) = Len(target_items)
          /\ Visited("Composing") => Len(StageCalls("overview")) = Len(all_items)

C2_Witness ==
    /\ pc = "Done"
    /\ ret = "True"
    /\ Len(StageCalls("items")) = 2
    /\ Len(StageCalls("overview")) = 2
    /\ \A k \in 1..Len(calls) : calls[k].result = "None"

\* C3: a None result for one item does not stop the items after it.  In both
\* pipelines render_item is invoked exactly once per item of the input list,
\* in list order; every item of render_items that yields a canvas is saved,
\* every item of render_overview that yields a canvas is pasted at its own
\* index, and the overview file is written when the loop is over.
C3_SkipDoesNotStopLaterItems ==
    LET ic == StageCalls("items")
        oc == StageCalls("overview")
    IN
    /\ Len(ic) = i
    /\ Names(ic) = Prefix(target_items, i)
    /\ \A k \in Rendered(ic) : ItemPath(ic[k].name) \in files
    /\ (pc = "Done" /\ Visited("Rendering")) => i = Len(target_items)
    /\ Len(oc) = ov.idx
    /\ Names(oc) = Prefix(all_items, ov.idx)
    /\ \A k \in 1..Len(oc) :
          (oc[k].result = "image") <=>
              (\E t \in tiles : t.idx = k - 1 /\ t.label = all_items[k])
    /\ (pc = "Done" /\ Visited("Composing")) => ov.idx = Len(all_items)
    /\ (pc = "Done" /\ Visited("Composing") /\ all_items # <<>>) =>
          OverviewPath \in files

C3_Witness ==
    LET ic == StageCalls("items")
        oc == StageCalls("overview")
    IN
    /\ pc = "Done"
    /\ Len(ic) = 2 /\ ic[1].result = "None" /\ ic[2].result = "image"
    /\ ItemPath(ic[2].name) \in files
    /\ Len(oc) = 2 /\ oc[1].result = "None" /\ oc[2].result = "image"
    /\ \E t \in tiles : t.idx = 1
    /\ OverviewPath \in files

\* C4: render_items over pairwise distinct identifiers, from an empty output
\* directory, leaves exactly one file per identifier whose render returned a
\* canvas, each at <output_dir>/<safe_name>.png.
C4_OneFilePerRenderedItem ==
    (pc = "Rendering" /\ i = Len(target_items) /\ IsDistinct(target_items)) =>
        LET ic == StageCalls("items") IN
        /\ files = { ItemPath(ic[k].name) : k \in Rendered(ic) }
        /\ Cardinality(files) = Cardinality(Rendered(ic))

\* C5: for n >= 1, cols is the least c with 2*c*c >= 3*n, capped at 16, so
\* 1 <= cols <= 16; rows = ceil(n / cols), i.e. rows*cols >= n > (rows-1)*cols;
\* n = 1 gives 2 by 1 and n = 10 gives 4 by 3.
C5_GridDimensions ==
    ov.active =>
        /\ 1 <= ov.cols /\ ov.cols <= 16
        /\ ov.cols < 16 =>
              /\ 2 * ov.cols * ov.cols >= 3 * ov.n
              /\ 2 * (ov.cols - 1) * (ov.cols - 1) < 3 * ov.n
        /\ ov.cols = 16 => 2 * 15 * 15 < 3 * ov.n
        /\ ov.rows * ov.cols >= ov.n
        /\ (ov.rows - 1) * ov.cols < ov.n
        /\ ov.n = 1 => ov.cols = 2 /\ ov.rows = 1
        /\ ov.n = 10 => ov.cols = 4 /\ ov.rows = 3

C5_Witness ==
    /\ ov.active
    /\ ov.n = 172
    /\ ov.cols = 16
    /\ ov.rows = 11

\* C6: the item at index idx is placed at column idx mod cols and row
\* idx div cols, inside the grid; no earlier index has the same cell; the
\* cell depends on the index alone, also after an earlier item was skipped,
\* and a skipped item pastes nothing.
C6_RowMajorPlacement ==
    ov.idx > 0 =>
        LET l == ov.last IN
        /\ l.idx = ov.idx - 1
        /\ l.col = l.idx % ov.cols
        /\ l.row = l.idx \div ov.cols
        /\ 0 <= l.col /\ l.col < ov.cols
        /\ 0 <= l.row /\ l.row < ov.rows
        /\ l.idx = l.row * ov.cols + l.col
        /\ \A j \in 0..(l.idx - 1) :
              LET q == Placement(j, ov.cols, ov.size) IN
              q.col # l.col \/ q.row # l.row
        /\ ~l.pasted => l.w = 0 /\ l.h = 0

C6_Witness ==
    /\ ov.skipped
    /\ ov.last.pasted
    /\ ov.last.idx = 9
    /\ ov.n = 10
    /\ ov.last.col = 1
    /\ ov.last.row = 2

\* C7: the overview canvas is cols*(cell+padding)+padding wide and
\* rows*(cell+padding)+padding high; a pasted tile has its origin at
\* (padding + col*(cell+padding), padding + row*(cell+padding)), is cell by
\* cell, and lies inside the canvas; 10 items at cell size 120 and padding 8
\* give 520 by 392.
C7_CanvasDimensions ==
    ov.active =>
        LET l == ov.last IN
        /\ ov.img_w = ov.cols * (ov.size + GRID_PADDING) + GRID_PADDING
        /\ ov.img_h = ov.rows * (ov.size + GRID_PADDING) + GRID_PADDING
        /\ l.pasted =>
              /\ l.x = GRID_PADDING + l.col * (ov.size + GRID_PADDING)
              /\ l.y = GRID_PADDING + l.row * (ov.size + GRID_PADDING)
              /\ l.w = ov.size /\ l.h = ov.size
              /\ 0 <= l.x /\ l.x + l.w <= ov.img_w
              /\ 0 <= l.y /\ l.y + l.h <= ov.img_h
        /\ (ov.n = 10 /\ ov.size = 120 /\ GRID_PADDING = 8) =>
              ov.img_w = 520 /\ ov.img_h = 392

C7_Witness ==
    /\ ov.active
    /\ ov.n = 10
    /\ ov.size = 120
    /\ ov.img_w = 520
    /\ ov.img_h = 392
    /\ ov.last.pasted
    /\ ov.last.resized
    /\ ov.last.idx = 9

\* C8: when get_items() is empty the composer invokes no render_item and
\* creates no overview file, and that is no error: after a successful load
\* the run goes on to Done and returns True.
C8_EmptyOverview ==
    all_items = <<>> =>
        /\ StageCalls("overview") = <<>>
        /\ OverviewPath \notin files
        /\ ~ov.active
        /\ tiles = {}
        /\ load_result = "ok" =>
              \/ pc = "Done" /\ ret = "True"
              \/ pc # "Done" /\ ret = "none" /\ ENABLED Next

C8_Witness ==
    /\ all_items = <<>>
    /\ Visited("Composing")
    /\ pc = "Done"
    /\ ret = "True"
    /\ files = {}

\* C9 as stated: when run() is given a non-empty items subset and the
\* overview is composed, the composer renders and places that subset.
C9_OverviewUsesSubset ==
    (items # <<>> /\ pc = "Done" /\ Visited("Composing")) =>
        /\ Names(StageCalls("overview")) = items
        /\ ov.n = Len(items)

\* C9 as amended: the composer always renders and places all items of
\* get_items(), in that order and on the grid computed from their count,
\* whether or not run() was given an items subset; the subset selects the
\* items of the single-item pipeline only.
C9_OverviewUsesAllItems ==
    /\ Visited("Rendering") => target_items = TargetItems(items, all_items)
    /\ (pc = "Done" /\ Visited("Composing")) =>
          /\ Names(StageCalls("overview")) = all_items
          /\ ov.n = Len(all_items)
          /\ all_items # <<>> =>
                /\ ov.cols = GridCols(Len(all_items))
                /\ ov.rows = GridRows(Len(all_items), ov.cols)
          /\ \A t \in tiles : t.label = all_items[t.idx + 1]

C9_Witness ==
    /\ pc = "Done"
    /\ Visited("Rendering")
    /\ Visited("Composing")
    /\ Len(items) = 1
    /\ Len(all_items) = 2
    /\ items[1] # all_items[1] /\ items[1] # all_items[2]
    /\ Names(StageCalls("items")) = items
    /\ Names(StageCalls("overview")) = all_items
    /\ Cardinality(tiles) = 2

\* C10: one mode per run.  With overview_only the run goes Ready,
\* Composing, Done: the single-item pipeline is never entered and no per-item
\* file is written, also when no_overview is set.  Otherwise it goes Ready,
\* Rendering, then Composing exactly when no_overview is unset and only once
\* render_items has handled every target item, then Done.  The composer is
\* entered at most once.
C10_OneModePerRun ==
    LET full == IF overview_only
                  THEN <<"Idle", "Loading", "Ready", "Composing", "Done">>
                  ELSE IF no_overview
                    THEN <<"Idle", "Loading", "Ready", "Rendering", "Done">>
                    ELSE <<"Idle", "Loading", "Ready", "Rendering", "Composing", "Done">>
    IN
    /\ load_result # "failed" =>
          /\ Len(trace) <= Len(full)
          /\ trace = Prefix(full, Len(trace))
    /\ pc = trace[Len(trace)]
    /\ Cardinality({ k \in 1..Len(trace) : trace[k] = "Composing" }) <= 1
    /\ overview_only =>
          /\ StageCalls("items") = <<>>
          /\ files \subseteq {OverviewPath}
    /\ (Visited("Rendering") /\ Visited("Composing")) =>
          /\ i = Len(target_items)
          /\ Len(StageCalls("items")) = Len(target_items)
    /\ \A k \in 1..Len(calls) :
          calls[k].stage = "overview" =>
              \A j \in (k + 1)..Len(calls) : calls[j].stage = "overview"

C10_Witness ==
    /\ pc = "Done"
    /\ overview_only
    /\ no_overview
    /\ items # <<>>
    /\ files = {OverviewPath}
    /\ Cardinality(tiles) = 2

====
